---- MODULE Spec2Model ----
(***************************************************************************)
(* GrimmReader / SEMSReader / PenetrationEfficiency of grimmtool.py and    *)
(* semstool.py as a state machine.  A reader object is constructed over a  *)
(* spreadsheet (the grid pd.read_excel returns with header=None); load     *)
(* builds the DataFrame df, mean_counts computes df.loc[start:end].mean()  *)
(* and compute_pe the corrected penetration-efficiency table.              *)
(*                                                                         *)
(* Library calls are modelled by what pandas 2.x does for them:            *)
(*   - astype(float): a blank cell is NaN, a numeric cell its value, a     *)
(*     text cell raises ValueError;                                        *)
(*   - to_datetime(errors="raise"): blank is NaT, text that is no date     *)
(*     raises ValueError;                                                  *)
(*   - .loc[a:b] on a DatetimeIndex (slice_indexer / get_slice_bound);     *)
(*   - DataFrame.mean() (skipna; object columns give an object result);    *)
(*   - float arithmetic: IEEE on float64, Python floats on object dtype    *)
(*     (division by 0.0 raises ZeroDivisionError).                         *)
(* Finite floats are modelled as exact rationals n/d in lowest terms.      *)
(* Time is counted in ticks of 30 seconds.                                 *)
(***************************************************************************)
EXTENDS Integers, Sequences, FiniteSets, TLC

VARIABLES reader, first_data_col, file, df, bin_centers, call, ret

vars == <<reader, first_data_col, file, df, bin_centers, call, ret>>

-----------------------------------------------------------------------------
(* Bounds of the model *)

\* data rows (rows >= 2) of a sheet: 1..MaxRows
MaxRows == 2
\* ticks a date string of the queries spans (a string written to the minute
\* spans 2 ticks of 30 s)
StrReso == 2

-----------------------------------------------------------------------------
(* Float values: a finite number n/d, NaN, +inf, -inf, or (in an object   *)
(* column) a str                                                           *)

RECURSIVE GCD(_, _)
GCD(a, b) == IF b = 0 THEN a ELSE GCD(b, a % b)

Abs(x) == IF x < 0 THEN -x ELSE x

FNum(n, d) ==
  LET g == GCD(Abs(n), Abs(d))
      s == IF d < 0 THEN -1 ELSE 1
  IN  [t |-> "num", n |-> (s * n) \div g, d |-> (s * d) \div g]

NaN == [t |-> "nan", n |-> 0, d |-> 1]
PInf == [t |-> "inf", n |-> 1, d |-> 1]
NInf == [t |-> "inf", n |-> -1, d |-> 1]
Str == [t |-> "str", n |-> 0, d |-> 1]

IsNum(x) == x.t = "num"
IsZero(x) == x.t = "num" /\ x.n = 0
Sign(x) == IF x.n > 0 THEN 1 ELSE IF x.n < 0 THEN -1 ELSE 0

\* x + y for finite x, y
FAdd(x, y) == FNum(x.n * y.d + y.n * x.d, x.d * y.d)

\* x * y (IEEE; Python floats agree: no exception)
FMul(x, y) ==
  IF x.t = "nan" \/ y.t = "nan" THEN NaN
  ELSE IF x.t = "inf" \/ y.t = "inf"
       THEN IF Sign(x) * Sign(y) > 0 THEN PInf
            ELSE IF Sign(x) * Sign(y) < 0 THEN NInf ELSE NaN
       ELSE FNum(x.n * y.n, x.d * y.d)

\* x / y on float64 (IEEE: x/0 is +-inf, 0/0 is NaN; no exception)
FDiv(x, y) ==
  IF x.t = "nan" \/ y.t = "nan" THEN NaN
  ELSE IF x.t = "inf"
       THEN IF y.t = "inf" THEN NaN
            ELSE IF Sign(x) * (IF Sign(y) < 0 THEN -1 ELSE 1) > 0 THEN PInf ELSE NInf
       ELSE IF y.t = "inf" THEN FNum(0, 1)
       ELSE IF y.n = 0
            THEN IF x.n > 0 THEN PInf ELSE IF x.n < 0 THEN NInf ELSE NaN
            ELSE FNum(x.n * y.d, x.d * y.n)

-----------------------------------------------------------------------------
(* Cells of the raw grid *)

Num(v) == [k |-> "num", v |-> v, s |-> ""]
Blank == [k |-> "blank", v |-> 0, s |-> ""]
\* a text that is neither a number nor a date, such as "n/a"
Text == [k |-> "text", v |-> 0, s |-> ""]
\* a date-time (native, or a text to_datetime parses) at tick v
Dt(v) == [k |-> "dt", v |-> v, s |-> ""]
\* a time text "h:00:00" followed by " AM" / " PM" when s says so
TimeCell(h, s) == [k |-> "time", v |-> h, s |-> s]

NaT == -1

\* the tick of year-month-day hour:00:00, counted from 1900 in months of 31
\* day slots (order and equality of instants are all the readers use)
Instant(y, m, d, h) == (((((y - 1900) * 12 + (m - 1)) * 31 + (d - 1)) * 24) + h) * 120

-----------------------------------------------------------------------------
(* Columns and conversions shared by the two readers *)

NCols(f) == Len(f.centers)

\* raw.iloc[1, first_data_col:]
CenterCells(f, fdc) == SubSeq(f.centers, fdc + 1, NCols(f))

\* astype(float) accepts a number and a blank (NaN); anything else raises
CanFloat(c) == c.k \in {"num", "blank"}

AsFloat(c) == IF c.k = "num" THEN FNum(c.v, 1) ELSE NaN

\* a cell kept as read (no conversion): a str stays a str
AsObject(c) == IF c.k = "num" THEN FNum(c.v, 1) ELSE IF c.k = "blank" THEN NaN ELSE Str

\* the conversions applied to every cell of a row
AsFloatRow(s) == [j \in 1..Len(s) |-> AsFloat(s[j])]

AsObjectRow(s) == [j \in 1..Len(s) |-> AsObject(s[j])]

\* the dtype read_excel gives grid column j is object when a cell of it is text
ColumnIsObject(f, j) ==
  \/ f.labels[j].k \notin {"num", "blank"}
  \/ f.centers[j].k \notin {"num", "blank"}
  \/ \E i \in 1..Len(f.rows) : f.rows[i][j].k \notin {"num", "blank"}

NoFrame == [set |-> FALSE, index |-> <<>>, columns |-> <<>>, data |-> <<>>, obj |-> FALSE]
Frame(ix, cols, data, obj) ==
  [set |-> TRUE, index |-> ix, columns |-> cols, data |-> data, obj |-> obj]

NoCenters == [set |-> FALSE, val |-> <<>>]
Centers(v) == [set |-> TRUE, val |-> v]

Raised(e, bc) == [err |-> e, df |-> NoFrame, bin_centers |-> bc]
Loaded(frame, bc) == [err |-> "", df |-> frame, bin_centers |-> bc]

-----------------------------------------------------------------------------
(* GrimmReader.load *)

\* pd.to_datetime(errors="raise") of one cell: a text that is no date raises
CanDatetime(c) == c.k \in {"dt", "blank", "num"}

\* blank -> NaT; a date-time -> its tick; a bare number -> that offset from the epoch
ToDatetime(c) == IF c.k = "blank" THEN NaT ELSE c.v

GrimmLoad(f, fdc) ==
  LET cells == CenterCells(f, fdc)
      bc    == Centers(AsFloatRow(cells))
      n     == Len(f.rows)
  IN  IF \E j \in 1..Len(cells) : ~CanFloat(cells[j])
      THEN Raised("ValueError", NoCenters)
      ELSE IF 1 + Len(cells) # NCols(f)
      THEN Raised("ValueError", bc)          \* data.columns = ...: length mismatch
      ELSE IF \E i \in 1..n : ~CanDatetime(f.rows[i][1])
      THEN Raised("ValueError", bc)
      ELSE Loaded(Frame([i \in 1..n |-> ToDatetime(f.rows[i][1])],
                        bc.val,
                        [i \in 1..n |-> AsObjectRow(Tail(f.rows[i]))],
                        \E j \in 2..NCols(f) : ColumnIsObject(f, j)),
                  bc)

-----------------------------------------------------------------------------
(* SEMSReader.load *)

date_col == 0
time_col == 1

RECURSIVE Digits(_)
\* str(v) of a non-negative integer, as its digits
Digits(v) == IF v < 10 THEN <<v>> ELSE Digits(v \div 10) \o <<v % 10>>

RECURSIVE ZFill(_, _)
\* str.zfill(width): zeros on the left up to width characters
ZFill(s, width) == IF Len(s) >= width THEN s ELSE ZFill(<<0>> \o s, width)

\* astype(str) of a date cell; -1 stands for a character that is no digit.
\* A blank in the column makes it float64, so numbers print with ".0".
DateStr(c, floatColumn) ==
  IF c.k = "num" THEN Digits(c.v) \o (IF floatColumn THEN <<-1, 0>> ELSE <<>>)
  ELSE <<-1, -1, -1>>

\* one string per row: the zero-filled date and the stripped time cell
DtStr(f, i) ==
  LET col == date_col + 1
      fl  == \E r \in 1..Len(f.rows) : f.rows[r][col].k = "blank"
  IN  [date |-> ZFill(DateStr(f.rows[i][col], fl), 6), time |-> f.rows[i][time_col + 1]]

DaysIn(y, m) ==
  IF m = 2 THEN (IF y % 4 = 0 THEN 29 ELSE 28)
  ELSE IF m \in {4, 6, 9, 11} THEN 30 ELSE 31

\* "%y%m%d" matches exactly six digits that name a day of the calendar
DateOk(d) ==
  /\ Len(d) = 6
  /\ \A i \in 1..6 : d[i] \in 0..9
  /\ (d[3] * 10 + d[4]) \in 1..12
  /\ (d[5] * 10 + d[6]) \in 1..DaysIn(d[1] * 10 + d[2], d[3] * 10 + d[4])

\* %y: 00..68 are 2000..2068, 69..99 are 1969..1999
Year(d) == LET yy == d[1] * 10 + d[2] IN IF yy <= 68 THEN 2000 + yy ELSE 1900 + yy

DateInstant(d, h) == Instant(Year(d), d[3] * 10 + d[4], d[5] * 10 + d[6], h)

\* format "%y%m%d %I:%M:%S %p": hour 1..12 and an AM/PM suffix
Parses12(s) == DateOk(s.date) /\ s.time.k = "time" /\ s.time.v \in 1..12 /\ s.time.s \in {"AM", "PM"}

Strptime12(s) ==
  DateInstant(s.date, (s.time.v % 12) + (IF s.time.s = "PM" THEN 12 ELSE 0))

\* format "%y%m%d %H:%M:%S": hour 0..23 and nothing after the seconds
Parses24(s) == DateOk(s.date) /\ s.time.k = "time" /\ s.time.v \in 0..23 /\ s.time.s = ""

Strptime24(s) == DateInstant(s.date, s.time.v)

\* the per-file variant: one failure of the 12-hour format re-parses every row
ParseTimestampsPerFile(strs) ==
  LET first == [i \in DOMAIN strs |-> IF Parses12(strs[i]) THEN Strptime12(strs[i]) ELSE NaT]
      mask  == {i \in DOMAIN strs : first[i] = NaT}
  IN  IF mask = {} THEN [err |-> "", ts |-> first]
      ELSE IF \E i \in DOMAIN strs : ~Parses24(strs[i]) THEN [err |-> "ValueError", ts |-> <<>>]
      ELSE [err |-> "", ts |-> [i \in DOMAIN strs |-> Strptime24(strs[i])]]

\* to_datetime(format 12-hour, errors="coerce"); the rows left NaT are parsed
\* again with the 24-hour format, errors="raise"
ParseTimestamps(strs) ==
  LET first == [i \in DOMAIN strs |-> IF Parses12(strs[i]) THEN Strptime12(strs[i]) ELSE NaT]
      mask  == {i \in DOMAIN strs : first[i] = NaT}
  IN  IF mask = {} THEN [err |-> "", ts |-> first]
      ELSE IF \E i \in mask : ~Parses24(strs[i]) THEN [err |-> "ValueError", ts |-> <<>>]
      ELSE [err |-> "", ts |-> [i \in DOMAIN strs |->
                                  IF i \in mask THEN Strptime24(strs[i]) ELSE first[i]]]

SEMSLoad(f, fdc) ==
  LET cells == CenterCells(f, fdc)
      bc    == Centers(AsFloatRow(cells))
      n     == Len(f.rows)
      parse == ParseTimestamps([i \in 1..n |-> DtStr(f, i)])
      cnt(i) == SubSeq(f.rows[i], fdc + 1, NCols(f))
  IN  IF \E j \in 1..Len(cells) : ~CanFloat(cells[j])
      THEN Raised("ValueError", NoCenters)
      ELSE IF parse.err # ""
      THEN Raised(parse.err, bc)
      ELSE IF \E i \in 1..n : \E j \in 1..Len(cnt(i)) : ~CanFloat(cnt(i)[j])
      THEN Raised("ValueError", bc)
      ELSE Loaded(Frame(parse.ts, bc.val, [i \in 1..n |-> AsFloatRow(cnt(i))], FALSE), bc)

-----------------------------------------------------------------------------
(* df.loc[start:end] on the DatetimeIndex *)

\* a bound of a query: a Timestamp at tick v (w = 1), or a date string whose
\* text names the w ticks from v on ("09:10" names 09:10:00 .. 09:10:59.9)
Ts(v) == [k |-> "ts", v |-> v, w |-> 1]
DateString(v, w) == [k |-> "str", v |-> v, w |-> w]

\* _maybe_cast_slice_bound: a string becomes the first tick it names as the
\* left bound and the last tick it names as the right bound
CastBound(b, side) == IF side = "left" THEN b.v ELSE b.v + b.w - 1

IsMonotonicIncreasing(ix) ==
  /\ \A i \in DOMAIN ix : ix[i] # NaT
  /\ \A i, j \in DOMAIN ix : i < j => ix[i] <= ix[j]

IsMonotonicDecreasing(ix) ==
  /\ \A i \in DOMAIN ix : ix[i] # NaT
  /\ \A i, j \in DOMAIN ix : i < j => ix[i] >= ix[j]

SetMin(S) == CHOOSE x \in S : \A y \in S : x <= y
SetMax(S) == CHOOSE x \in S : \A y \in S : x >= y

KeyError == [err |-> "KeyError", at |-> 0]
At(p) == [err |-> "", at |-> p]

\* Index.get_slice_bound: the zero-based position the slice starts at (left)
\* or stops before (right)
GetSliceBound(ix, b, side) ==
  LET label == CastBound(b, side)
      hits  == {i \in DOMAIN ix : ix[i] = label}
  IN  IF hits = {}
      THEN IF IsMonotonicIncreasing(ix)
           THEN At(Cardinality({i \in DOMAIN ix :
                     IF side = "left" THEN ix[i] < label ELSE ix[i] <= label}))
           ELSE IF IsMonotonicDecreasing(ix)
           THEN At(Cardinality({i \in DOMAIN ix :
                     IF side = "left" THEN ix[i] > label ELSE ix[i] >= label}))
           ELSE KeyError
      ELSE IF SetMax(hits) - SetMin(hits) + 1 # Cardinality(hits)
           THEN KeyError                      \* non-unique label, not one run of rows
           ELSE IF side = "left" THEN At(SetMin(hits) - 1) ELSE At(SetMax(hits))

Rows(S) == [err |-> "", rows |-> S]
NoRows(e) == [err |-> e, rows |-> {}]

\* DatetimeIndex.slice_indexer: the rows df.loc[start:end] selects
LocSlice(ix, start, end) ==
  IF start.k = "str" /\ end.k = "str" /\ ~IsMonotonicIncreasing(ix)
  THEN LET lo == CastBound(start, "left")
           hi == CastBound(end, "right")
       IN  IF (\E i \in DOMAIN ix : ix[i] = lo) /\ (\E i \in DOMAIN ix : ix[i] = hi)
           THEN Rows({i \in DOMAIN ix : ix[i] # NaT /\ lo <= ix[i] /\ ix[i] <= hi})
           ELSE NoRows("KeyError")
  ELSE LET a == GetSliceBound(ix, start, "left")
           b == GetSliceBound(ix, end, "right")
       IN  IF a.err # "" THEN NoRows(a.err)
           ELSE IF b.err # "" THEN NoRows(b.err)
           ELSE Rows({i \in DOMAIN ix : a.at < i /\ i <= b.at})

-----------------------------------------------------------------------------
(* DataFrame.mean() *)

RECURSIVE SumOver(_, _)
\* the sum of the finite numbers col[i], i in S
SumOver(col, S) ==
  IF S = {} THEN FNum(0, 1)
  ELSE LET i == CHOOSE x \in S : TRUE IN FAdd(col[i], SumOver(col, S \ {i}))

\* the variant that counts a missing value as a zero
ColumnMeanZeroFill(col, S) ==
  IF S = {} THEN FNum(0, 1)
  ELSE LET have == {i \in S : IsNum(col[i])}
       IN  FMul(SumOver(col, have), FNum(1, Cardinality(S)))

\* nanmean of one column over the rows S: missing values are skipped, and a
\* column with no value left is NaN
ColumnMean(col, S) ==
  LET have == {i \in S : IsNum(col[i])}
  IN  IF have = {} THEN NaN
      ELSE FMul(SumOver(col, have), FNum(1, Cardinality(have)))

Means(v, obj) == [err |-> "", val |-> v, obj |-> obj]
Raise(e) == [err |-> e, val |-> <<>>, obj |-> FALSE]

\* mean_counts of either reader on the frame d
MeanCountsOf(d, start, end) ==
  IF ~d.set THEN Raise("AttributeError")      \* self.df is None
  ELSE LET sel == LocSlice(d.index, start, end)
           col(j) == [i \in DOMAIN d.data |-> d.data[i][j]]
       IN  IF sel.err # "" THEN Raise(sel.err)
           ELSE IF \E i \in sel.rows : \E j \in DOMAIN d.columns : d.data[i][j].t = "str"
           THEN Raise("TypeError")            \* nanmean cannot sum a str
           ELSE Means([j \in DOMAIN d.columns |-> ColumnMean(col(j), sel.rows)], d.obj)

-----------------------------------------------------------------------------
(* compute_pe *)

\* the ratio taken the wrong way round
PenetrationInverted(corr_down, corr_up) == FMul(FDiv(corr_up, corr_down), FNum(100, 1))

\* pe = (corr_down / corr_up) * 100
Penetration(corr_down, corr_up) == FMul(FDiv(corr_down, corr_up), FNum(100, 1))

ReportRow(size, ou, od, up_factor, down_factor) ==
  LET cu == FMul(ou, up_factor)
      cd == FMul(od, down_factor)
  IN  [size |-> size, origUp |-> ou, origDown |-> od,
       corrUp |-> cu, corrDown |-> cd, pe |-> Penetration(cd, cu)]

\* compute_pe of either engine over the frame d
ComputePeOf(d, up_start, up_end, down_start, down_end, up_factor, down_factor) ==
  LET orig_up   == MeanCountsOf(d, up_start, up_end)
      orig_down == MeanCountsOf(d, down_start, down_end)
  IN  IF orig_up.err # "" THEN Raise(orig_up.err)
      ELSE IF orig_down.err # "" THEN Raise(orig_down.err)
      ELSE IF orig_up.obj /\ \E j \in DOMAIN orig_up.val :
                                 IsZero(FMul(orig_up.val[j], up_factor))
      THEN Raise("ZeroDivisionError")         \* object dtype divides Python floats
      ELSE Means([j \in DOMAIN d.columns |->
                    ReportRow(d.columns[j], orig_up.val[j], orig_down.val[j],
                              up_factor, down_factor)],
                 orig_up.obj)

-----------------------------------------------------------------------------
(* The sheets, the windows and the factors the readers are run on *)

\* 2025-06-03 15:00:00
T0 == Instant(2025, 6, 3, 15)

Sheet(labels, centers, rows) == [labels |-> labels, centers |-> centers, rows |-> rows]

\* all sequences of 1..MaxRows rows drawn from R
RowSeqs(R) == UNION {[1..n -> R] : n \in 1..MaxRows}

\* the first n rows of a well-formed optical-counter sheet, one per minute
GrimmPlainRows(n) == [i \in 1..n |-> <<Dt(T0 + 2 * (i - 1)), Num(100), Num(50)>>]
\* the same for the mobility sizer, one per hour
SEMSPlainRows(n) == [i \in 1..n |-> <<Num(250603), TimeCell(14 + i, ""), Num(100), Num(50)>>]

TextLabels(n) == [j \in 1..n |-> Text]
BlankLabels(n) == [j \in 1..n |-> Blank]

\* optical counter: numeric sheets with rows in any order of time, two to a minute
GrimmOrderSheets ==
  {Sheet(BlankLabels(3), <<Blank, Num(1), Num(2)>>, r) :
     r \in RowSeqs({<<Dt(T0 + i), c, Num(50)>> : i \in 0..3, c \in {Num(0), Num(100)}})}

\* optical counter: sheets with zero and blank counts, with and without the
\* text labels of row 0
GrimmCountSheets ==
  {Sheet(l, <<Blank, Num(1), Num(2)>>, r) :
     l \in {TextLabels(3), BlankLabels(3)},
     r \in RowSeqs({<<Dt(T0 + i), c, Num(50)>> :
                      i \in {0, 2}, c \in {Num(0), Num(50), Num(100), Blank}})}

\* optical counter: sheets whose bin-center row has blank or text cells
GrimmCenterSheets ==
  {Sheet(TextLabels(3), <<c0, c1, c2>>, GrimmPlainRows(MaxRows)) :
     c0 \in {Blank, Num(5)}, c1 \in {Num(1), Blank, Text}, c2 \in {Num(2), Blank, Text}}

\* optical counter: sheets with blank or text timestamp cells and text counts
GrimmCellSheets ==
  {Sheet(TextLabels(3), <<Blank, Num(1), Num(2)>>, r) :
     r \in RowSeqs({<<t, c, Num(50)>> : t \in {Dt(T0), Blank, Text}, c \in {Num(50), Text}})}

\* mobility sizer: date and time cells in both clock formats
SEMSTimeSheets ==
  {Sheet(TextLabels(4), <<Blank, Blank, Num(10), Num(20)>>, r) :
     r \in RowSeqs({<<Num(250603), TimeCell(h[1], h[2]), Num(100), Num(50)>> :
                      h \in {<<3, "PM">>, <<15, "">>, <<12, "AM">>, <<12, "">>,
                             <<3, "">>, <<15, "PM">>}}
                   \cup {<<Num(50603), TimeCell(3, "PM"), Num(100), Num(50)>>})}

\* mobility sizer: sheets whose bin-center row has blank or text cells
SEMSCenterSheets ==
  {Sheet(TextLabels(4), <<Blank, Blank, c1, c2>>, SEMSPlainRows(MaxRows)) :
     c1 \in {Num(10), Blank, Text}, c2 \in {Num(20), Blank, Text}}

\* mobility sizer: sheets with zero, blank or text count cells
SEMSCellSheets ==
  {Sheet(TextLabels(4), <<Blank, Blank, Num(10), Num(20)>>, r) :
     r \in RowSeqs({<<Num(250603), TimeCell(h, ""), c, Num(50)>> :
                      h \in {15, 16}, c \in {Num(0), Num(100), Blank, Text}})}

\* reader objects as constructed: (class, first_data_col, sheet at path)
Readers ==
  ({"GrimmReader"} \X {1} \X (GrimmOrderSheets \cup GrimmCountSheets \cup GrimmCellSheets))
  \cup ({"GrimmReader"} \X {0, 1, 2} \X GrimmCenterSheets)
  \cup ({"SEMSReader"} \X {2} \X (SEMSTimeSheets \cup SEMSCenterSheets \cup SEMSCellSheets))

\* bounds of mean_counts: Timestamps, and a string written to the minute
QueryBounds == {Ts(T0), Ts(T0 + 2), DateString(T0, StrReso)}

\* (start, end) windows of compute_pe: 15:00, 15:01 and 16:00
UpWindows == {<<Ts(T0), Ts(T0 + 1)>>, <<Ts(T0 + 120), Ts(T0 + 121)>>}
DownWindows == {<<Ts(T0 + 2), Ts(T0 + 3)>>, <<Ts(T0 + 120), Ts(T0 + 121)>>}

\* (up_factor, down_factor): the defaults, and 2 and 1.5
Factors == {<<FNum(1, 1), FNum(1, 1)>>, <<FNum(2, 1), FNum(3, 2)>>}

-----------------------------------------------------------------------------
(* The state machine *)

Call(op, b, f) == [op |-> op, b |-> b, f |-> f]

Init ==
  /\ \E c \in Readers : reader = c[1] /\ first_data_col = c[2] /\ file = c[3]
  /\ df = NoFrame
  /\ bin_centers = NoCenters
  /\ call = Call("__init__", <<>>, <<>>)
  /\ ret = Raise("")

load ==
  LET r == IF reader = "GrimmReader" THEN GrimmLoad(file, first_data_col)
                                     ELSE SEMSLoad(file, first_data_col)
  IN  /\ df' = IF r.err = "" THEN r.df ELSE df
      /\ bin_centers' = IF r.bin_centers.set THEN r.bin_centers ELSE bin_centers
      /\ call' = Call("load", <<>>, <<>>)
      /\ ret' = Raise(r.err)
      /\ UNCHANGED <<reader, first_data_col, file>>

mean_counts ==
  \E start \in QueryBounds : \E end \in QueryBounds :
    /\ call' = Call("mean_counts", <<start, end>>, <<>>)
    /\ ret' = MeanCountsOf(df, start, end)
    /\ UNCHANGED <<reader, first_data_col, file, df, bin_centers>>

compute_pe ==
  \E up \in UpWindows : \E down \in DownWindows : \E f \in Factors :
    /\ call' = Call("compute_pe", <<up[1], up[2], down[1], down[2]>>, f)
    /\ ret' = ComputePeOf(df, up[1], up[2], down[1], down[2], f[1], f[2])
    /\ UNCHANGED <<reader, first_data_col, file, df, bin_centers>>

Next == load \/ mean_counts \/ compute_pe

Spec == Init /\ [][Next]_vars

-----------------------------------------------------------------------------
(* Vocabulary of the properties *)

Start == call.b[1]
End == call.b[2]

\* the records of frame d whose timestamp t has lo <= t <= hi
InRange(d, lo, hi) == {i \in DOMAIN d.index : d.index[i] # NaT /\ lo <= d.index[i] /\ d.index[i] <= hi}

\* per-bin arithmetic mean of the records S of frame d, missing values left out
MeansOver(d, S) ==
  [j \in DOMAIN d.columns |-> ColumnMean([i \in DOMAIN d.data |-> d.data[i][j]], S)]

NumericCounts(d) == \A i \in DOMAIN d.data : \A j \in DOMAIN d.data[i] : d.data[i][j].t # "str"

DefinedTimestamps(d) == \A i \in DOMAIN d.index : d.index[i] # NaT

\* no record lies between the first instant start names and the last instant end names
ZeroMatch(d, start, end) == InRange(d, CastBound(start, "left"), CastBound(end, "right")) = {}

\* the place of row i when the rows are put in order of time (ties keep their order)
Rank(d, i) ==
  1 + Cardinality({k \in DOMAIN d.index :
                     d.index[k] < d.index[i] \/ (d.index[k] = d.index[i] /\ k < i)})

RowAt(d, p) == CHOOSE i \in DOMAIN d.index : Rank(d, i) = p

\* the same rows sorted by timestamp
SortedFrame(d) ==
  [d EXCEPT !.index = [p \in DOMAIN d.index |-> d.index[RowAt(d, p)]],
            !.data = [p \in DOMAIN d.data |-> d.data[RowAt(d, p)]]]

-----------------------------------------------------------------------------
(* C1 - C3: mean_counts *)

\* C1: on a loaded series in chronological order with numeric counts,
\* mean_counts(start, end) averages exactly the records with start <= t <= end,
\* a string bound standing for the one instant it parses to.
C1_WindowIsInclusiveInstants ==
  (call.op = "mean_counts" /\ df.set /\ IsMonotonicIncreasing(df.index) /\ NumericCounts(df))
    => /\ ret.err = ""
       /\ ret.val = MeansOver(df, InRange(df, Start.v, End.v))

\* C2: mean_counts does not depend on the order of the rows: on any loaded
\* series (defined timestamps, numeric counts) it succeeds and returns what it
\* returns for the same rows sorted by timestamp.
C2_RowOrderIndependent ==
  (call.op = "mean_counts" /\ df.set /\ DefinedTimestamps(df) /\ NumericCounts(df))
    => /\ ret.err = ""
       /\ ret.val = MeanCountsOf(SortedFrame(df), Start, End).val

\* C3 as claimed: a window that matches zero records makes mean_counts, and
\* compute_pe that issued it, signal an error.
C3_EmptyWindowIsAnError ==
  /\ (call.op = "mean_counts" /\ df.set /\ ZeroMatch(df, Start, End)) => ret.err # ""
  /\ (call.op = "compute_pe" /\ df.set
        /\ (ZeroMatch(df, call.b[1], call.b[2]) \/ ZeroMatch(df, call.b[3], call.b[4])))
       => ret.err # ""

\* C3 as amended: on a series in chronological order, a window that matches
\* zero records makes mean_counts return, without error, NaN for every bin; a
\* report compute_pe returns from such a window holds NaN as that side's
\* original and corrected mean and as the penetration efficiency of every bin.
C3_EmptyWindowIsNaN ==
  /\ (call.op = "mean_counts" /\ df.set /\ IsMonotonicIncreasing(df.index)
        /\ ZeroMatch(df, Start, End))
       => /\ ret.err = ""
          /\ Len(ret.val) = Len(df.columns)
          /\ \A j \in DOMAIN ret.val : ret.val[j] = NaN
  /\ (call.op = "compute_pe" /\ df.set /\ IsMonotonicIncreasing(df.index) /\ ret.err = "")
       => \A j \in DOMAIN ret.val :
            /\ ZeroMatch(df, call.b[1], call.b[2])
                 => ret.val[j].origUp = NaN /\ ret.val[j].corrUp = NaN /\ ret.val[j].pe = NaN
            /\ ZeroMatch(df, call.b[3], call.b[4])
                 => ret.val[j].origDown = NaN /\ ret.val[j].corrDown = NaN /\ ret.val[j].pe = NaN

\* C3 witness: a non-empty series in chronological order was queried over a
\* window holding none of its records, and NaN came back for each of its bins.
C3_Witness ==
  /\ call.op = "mean_counts" /\ df.set /\ Len(df.index) > 0 /\ Len(df.columns) = 2
  /\ IsMonotonicIncreasing(df.index)
  /\ ZeroMatch(df, Start, End)
  /\ ret.err = "" /\ ret.val = <<NaN, NaN>>

-----------------------------------------------------------------------------
(* C4 - C8: load *)

\* the instant of date cell v read as YYMMDD (zero-padded on the left) at hour h
InstantOfCells(v, h) == Instant(2000 + v \div 10000, (v \div 100) % 100, v % 100, h)

DateCell(i) == file.rows[i][date_col + 1]
TimeOfRow(i) == file.rows[i][time_col + 1]

\* a time text of the 12-hour clock with its AM/PM suffix
IsTwelveHour(c) == c.k = "time" /\ c.s \in {"AM", "PM"} /\ c.v \in 1..12
\* a time text of the 24-hour clock
IsTwentyFourHour(c) == c.k = "time" /\ c.s = "" /\ c.v \in 0..23

HourOf(c) ==
  IF c.s = "" THEN c.v
  ELSE IF c.s = "AM" THEN (IF c.v = 12 THEN 0 ELSE c.v)
  ELSE (IF c.v = 12 THEN 12 ELSE c.v + 12)

CentersNumericOrBlank == \A j \in first_data_col + 1..NCols(file) : CanFloat(file.centers[j])

CountsNumericOrBlank ==
  \A i \in DOMAIN file.rows : \A j \in first_data_col + 1..NCols(file) : CanFloat(file.rows[i][j])

\* C4: SEMSReader.load parses the timestamp of each row on its own: as 12-hour
\* time with AM/PM when the row is written so, else as 24-hour time; a sheet
\* whose rows all parse one way or the other loads whatever the mix, a row that
\* parses in neither way makes load fail with no series, and "3:00:00 PM" and
\* "15:00:00" of the same date are the same instant.
C4_PerRowTwoStageFallback ==
  (reader = "SEMSReader" /\ call.op = "load")
    => LET rows == DOMAIN file.rows
           ok(i) == IsTwelveHour(TimeOfRow(i)) \/ IsTwentyFourHour(TimeOfRow(i))
       IN  /\ ((\A i \in rows : ok(i)) /\ CentersNumericOrBlank /\ CountsNumericOrBlank)
                => ret.err = "" /\ df.set
           /\ (\E i \in rows : ~ok(i)) => ret.err # "" /\ ~df.set
           /\ df.set
                => /\ Len(df.index) = Len(file.rows)
                   /\ \A i \in rows :
                        /\ df.index[i] # NaT
                        /\ df.index[i] = InstantOfCells(DateCell(i).v, HourOf(TimeOfRow(i)))
                   /\ \A i, j \in rows :
                        (/\ DateCell(i) = DateCell(j)
                         /\ TimeOfRow(i).s = "PM" /\ TimeOfRow(j).s = ""
                         /\ TimeOfRow(j).v = TimeOfRow(i).v + 12)
                          => df.index[i] = df.index[j]

\* C4 witness: a sheet with a "3:00:00 PM" row and a "15:00:00" row of
\* 2025-06-03 was loaded, and both rows are at 15:00 of that day.
C4_Witness ==
  /\ reader = "SEMSReader" /\ call.op = "load" /\ ret.err = "" /\ df.set
  /\ \E i, j \in DOMAIN file.rows :
       /\ DateCell(i) = Num(250603) /\ DateCell(j) = Num(250603)
       /\ TimeOfRow(i) = TimeCell(3, "PM") /\ TimeOfRow(j) = TimeCell(15, "")
       /\ df.index[i] = T0 /\ df.index[j] = T0

TimestampCellsAreDates ==
  reader = "GrimmReader" => \A i \in DOMAIN file.rows : file.rows[i][1].k = "dt"

\* C5: every count of a constructed series is a number or the missing marker,
\* and a sheet with a text count cell (its other cells well-formed) fails to
\* load (both readers).
C5_CountsAreNumeric ==
  TimestampCellsAreDates
    => /\ df.set => NumericCounts(df)
       /\ (call.op = "load" /\ ~CountsNumericOrBlank) => ret.err # "" /\ ~df.set

\* C6: GrimmReader.load fails when a leading cell of a data row is no
\* date-time (the counts being numeric), so every record of a constructed
\* series has a defined timestamp.
C6_TimestampsAreDefined ==
  (reader = "GrimmReader" /\ CountsNumericOrBlank)
    => /\ df.set => DefinedTimestamps(df)
       /\ (call.op = "load" /\ \E i \in DOMAIN file.rows : file.rows[i][1].k # "dt")
            => ret.err # "" /\ ~df.set

\* C7: a bin-center row with a cell that is not a number (text, or no value)
\* makes load fail and leaves the reader without a series, so that a later
\* mean_counts returns no result (both readers).
C7_BinCentersAreNumbers ==
  (\E j \in first_data_col + 1..NCols(file) : file.centers[j].k # "num")
    => /\ ~df.set
       /\ call.op # "__init__" => ret.err # ""

\* C8: for every first_data_col within the sheet's columns and numeric
\* bin-center cells from that column on, GrimmReader.load succeeds: the bin
\* centers are those cells in order, each labels the counts of its own column,
\* and the timestamps are the leading cells of the data rows.
C8_AnyFirstDataColumnLoads ==
  (/\ reader = "GrimmReader" /\ call.op = "load"
   /\ first_data_col \in 0..NCols(file) - 1
   /\ \A j \in first_data_col + 1..NCols(file) : file.centers[j].k = "num"
   /\ \A i \in DOMAIN file.rows : file.rows[i][1].k = "dt"
   /\ \A i \in DOMAIN file.rows : \A j \in 2..NCols(file) : file.rows[i][j].k = "num")
    => /\ ret.err = "" /\ df.set
       /\ bin_centers.val = [j \in 1..NCols(file) - first_data_col |->
                               FNum(file.centers[first_data_col + j].v, 1)]
       /\ df.columns = bin_centers.val
       /\ \A i \in DOMAIN file.rows :
            /\ df.index[i] = file.rows[i][1].v
            /\ \A j \in DOMAIN df.columns :
                 df.data[i][j] = FNum(file.rows[i][first_data_col + j].v, 1)

-----------------------------------------------------------------------------
(* C9, C10: compute_pe *)

UpMeans == MeanCountsOf(df, call.b[1], call.b[2])
DownMeans == MeanCountsOf(df, call.b[3], call.b[4])

\* C9: once both windowed means are there, compute_pe raises nothing: a bin
\* whose corrected upstream mean is zero has an infinite or NaN penetration
\* efficiency, a bin with a NaN mean has NaN corrected value and efficiency,
\* and every other bin has a finite efficiency (both engines).
C9_NoRaiseOnUndefinedBins ==
  (call.op = "compute_pe" /\ UpMeans.err = "" /\ DownMeans.err = "")
    => /\ ret.err = ""
       /\ \A j \in DOMAIN ret.val :
            LET r == ret.val[j]
            IN  /\ IsZero(r.corrUp) => r.pe.t \in {"inf", "nan"}
                /\ r.origUp = NaN => r.corrUp = NaN /\ r.pe = NaN
                /\ r.origDown = NaN => r.corrDown = NaN /\ r.pe = NaN
                /\ (IsNum(r.origUp) /\ IsNum(r.origDown) /\ ~IsZero(r.corrUp)) => IsNum(r.pe)

\* z = x * y, over the rationals and NaN
IsProduct(z, x, y) ==
  IF IsNum(x) /\ IsNum(y) THEN IsNum(z) /\ z.n * x.d * y.d = x.n * y.n * z.d
  ELSE z = NaN

\* p = (cd / cu) * 100, with the IEEE results for a zero or NaN operand
IsPercentRatio(p, cd, cu) ==
  IF ~IsNum(cd) \/ ~IsNum(cu) THEN p = NaN
  ELSE IF cu.n = 0 THEN (IF cd.n = 0 THEN p = NaN ELSE p.t = "inf" /\ p.n * cd.n > 0)
  ELSE IsNum(p) /\ p.n * cu.n * cd.d = 100 * cd.n * cu.d * p.d

\* C10: a report compute_pe returns has one row per bin center, in bin-center
\* order; the row holds the two windowed means of its bin, each mean times
\* its factor, and pe = (correctedDown / correctedUp) * 100; with factors 1.0
\* the corrected means are the original ones.
C10_ReportArithmetic ==
  (call.op = "compute_pe" /\ ret.err = "")
    => /\ Len(ret.val) = Len(bin_centers.val)
       /\ \A j \in DOMAIN ret.val :
            LET r == ret.val[j]
            IN  /\ r.size = bin_centers.val[j]
                /\ r.origUp = UpMeans.val[j]
                /\ r.origDown = DownMeans.val[j]
                /\ IsProduct(r.corrUp, r.origUp, call.f[1])
                /\ IsProduct(r.corrDown, r.origDown, call.f[2])
                /\ IsPercentRatio(r.pe, r.corrDown, r.corrUp)
                /\ call.f[1] = FNum(1, 1) => r.corrUp = r.origUp
                /\ call.f[2] = FNum(1, 1) => r.corrDown = r.origDown

\* C10 witness: a report with origUp = 100, origDown = 50 under the factors 2
\* and 1.5: corrected 200 and 75, pe = 37.5.
C10_Witness ==
  /\ call.op = "compute_pe" /\ ret.err = ""
  /\ call.f = <<FNum(2, 1), FNum(3, 2)>>
  /\ \E j \in DOMAIN ret.val :
       /\ ret.val[j].origUp = FNum(100, 1) /\ ret.val[j].origDown = FNum(50, 1)
       /\ ret.val[j].corrUp = FNum(200, 1) /\ ret.val[j].corrDown = FNum(75, 1)
       /\ ret.val[j].pe = FNum(75, 2)

====
